---- MODULE Spec2Model ----
(***************************************************************************)
(* Seed-Oss (EasyDeL): SeedOssConfig construction and the forward call of  *)
(* SeedOssModel, SeedOssForCausalLM and SeedOssForSequenceClassification.  *)
(*                                                                         *)
(* Tensors are modelled by what the wiring code observes of them: shapes,  *)
(* token contents of input_ids, and tags saying how many decoder layers a  *)
(* hidden state has passed.  Python's None is modelled by optional values: *)
(* the empty sequence << >> is None and << v >> is the value v; objects    *)
(* that may be None carry an is_none field.                                *)
(***************************************************************************)
EXTENDS Integers, Sequences, FiniteSets, TLC

(* ------------------------------ bounds -------------------------------- *)
MaxLayers == 2      \* largest num_hidden_layers of a modelled config
MaxPos == 2         \* largest max_position_embeddings of a forward config
MaxBatch == 2       \* largest batch size of a forward call
MaxCalls == 3       \* forward calls per generation session
MaxPoolLen == 4     \* longest input_ids row of the pooling specification
MaxHeads == 3       \* largest num_attention_heads of a constructed config
MaxHidden == 6      \* largest hidden_size of a constructed config

(* --------------------------- optional values --------------------------- *)
NoneVal == << >>

Some(v) == << v >>

IsNone(o) == o = << >>

Val(o) == o[1]

(* ------------------------- SeedOssConfig.__init__ ---------------------- *)
\* Default rotary base used when no source supplies one.
DefaultRopeTheta == 10000

\* The pad token id used by the forward configurations (the default).
PadId == 1

\* A dict is a function from its key set to values; rope_parameters may be
\* None.  A "rope_theta" entry may itself hold None.
NoDict == [is_none |-> TRUE, d |-> << >>]

Dict(f) == [is_none |-> FALSE, d |-> f]

HasKey(dict, k) == (~dict.is_none) /\ k \in DOMAIN dict.d

\* dict.get(k): the value, or None when the key is missing.
DictGet(dict, k) == IF k \in DOMAIN dict.d THEN dict.d[k] ELSE NoneVal

\* _extract_rope_scaling: every entry but "rope_theta"; an empty result is
\* None (`scaling or None`).
ExtractRopeScaling(rope_parameters) ==
    IF rope_parameters.is_none THEN NoDict
    ELSE LET keys == DOMAIN rope_parameters.d \ {"rope_theta"}
             scaling == [k \in keys |-> rope_parameters.d[k]]
         IN IF keys = {} THEN NoDict ELSE Dict(scaling)

\* kwargs.pop("rope_theta", None).  rope_theta is a named parameter of
\* __init__, so Python binds every rope_theta=... keyword to that parameter
\* and **kwargs never holds the key: the pop yields its default whenever the
\* key is missing.
KwargsPop(kwargs, k) == IF k \in DOMAIN kwargs THEN kwargs[k] ELSE NoneVal

\* Lines 150-155: resolution of the rotary base.
ResolveRopeThetaNoParams(rope_parameters, rope_theta, rope_theta_kwarg) ==
    LET v1 == IF ~IsNone(rope_theta) THEN rope_theta ELSE rope_theta_kwarg
    IN IF IsNone(v1) THEN DefaultRopeTheta ELSE Val(v1)

ResolveRopeTheta(rope_parameters, rope_theta, rope_theta_kwarg) ==
    LET v1 == IF ~IsNone(rope_theta) THEN rope_theta ELSE rope_theta_kwarg
        v2 == IF (~rope_parameters.is_none)
                 /\ ~IsNone(DictGet(rope_parameters, "rope_theta"))
              THEN rope_parameters.d["rope_theta"]
              ELSE v1
    IN IF IsNone(v2) THEN DefaultRopeTheta ELSE Val(v2)

\* Lines 157-161: resolution of the rotary scaling.
ResolveRopeScaling(rope_parameters, rope_scaling, rope_scaling_kwarg) ==
    LET v1 == IF ~rope_scaling.is_none THEN rope_scaling ELSE rope_scaling_kwarg
        fromParams == ExtractRopeScaling(rope_parameters)
    IN IF ~fromParams.is_none THEN fromParams ELSE v1

\* Line 143: `layer_types or [...]`; an empty list is falsy.
ResolveLayerTypes(layer_types, num_hidden_layers) ==
    IF IsNone(layer_types) \/ Val(layer_types) = << >>
    THEN [i \in 1..num_hidden_layers |-> "full_attention"]
    ELSE Val(layer_types)

\* Line 145: floor division.
ResolveHeadDimCeil(head_dim, hidden_size, num_attention_heads) ==
    IF ~IsNone(head_dim) THEN Val(head_dim)
    ELSE (hidden_size + num_attention_heads - 1) \div num_attention_heads

ResolveHeadDim(head_dim, hidden_size, num_attention_heads) ==
    IF ~IsNone(head_dim) THEN Val(head_dim)
    ELSE hidden_size \div num_attention_heads

\* Lines 120-122.
ResolveKVHeads(num_key_value_heads, num_attention_heads) ==
    IF IsNone(num_key_value_heads) THEN num_attention_heads
    ELSE Val(num_key_value_heads)

\* The constructor: a holds the named arguments, a.kwargs the **kwargs dict.
SeedOssConfig(a) ==
    [ hidden_size             |-> a.hidden_size,
      num_hidden_layers       |-> a.num_hidden_layers,
      num_attention_heads     |-> a.num_attention_heads,
      num_key_value_heads     |-> ResolveKVHeads(a.num_key_value_heads,
                                                 a.num_attention_heads),
      max_position_embeddings |-> a.max_position_embeddings,
      pad_token_id            |-> a.pad_token_id,
      layer_types             |-> ResolveLayerTypes(a.layer_types,
                                                    a.num_hidden_layers),
      head_dim                |-> ResolveHeadDim(a.head_dim, a.hidden_size,
                                                 a.num_attention_heads),
      rope_parameters         |-> a.rope_parameters,
      rope_theta              |-> ResolveRopeTheta(a.rope_parameters,
                                     a.rope_theta,
                                     KwargsPop(a.kwargs, "rope_theta")),
      rope_scaling            |-> ResolveRopeScaling(a.rope_parameters,
                                     a.rope_scaling,
                                     IF "rope_scaling" \in DOMAIN a.kwargs
                                     THEN a.kwargs["rope_scaling"]
                                     ELSE NoDict) ]

\* The signature's defaults (lines 79-108) for the modelled arguments.
DefaultArgs ==
    [ hidden_size             |-> 4096,
      num_hidden_layers       |-> 64,
      num_attention_heads     |-> 80,
      num_key_value_heads     |-> Some(8),
      max_position_embeddings |-> 524288,
      pad_token_id            |-> Some(PadId),
      layer_types             |-> NoneVal,
      head_dim                |-> Some(128),
      rope_parameters         |-> NoDict,
      rope_theta              |-> NoneVal,
      rope_scaling            |-> NoDict,
      kwargs                  |-> << >> ]

(* ------------------------------ state ---------------------------------- *)
VARIABLES
    config,     \* the SeedOssConfig the model was built with
    ctor_args,  \* the arguments of the last SeedOssConfig(...) construction
    pc,         \* position of the forward call: idle, layers, store, norm,
                \* head, done, raised
    args,       \* the arguments of the forward call in progress
    frame,      \* the locals of SeedOssModel.__call__
    views,      \* past_key_values.views of the one cache object of the
                \* session: per layer, the number of cached positions
    outputs,    \* the BaseModelOutput returned by self.model(...)
    result,     \* the output record returned to the caller
    raised,     \* the exception the call ended with and the class whose
                \* __call__ raised it; NoExc when none
    held,       \* the cache the caller holds between calls
    hist,       \* observations of the call in progress
    prev,       \* observations of the last finished call
    ncalls,     \* forward calls made so far
    resolved    \* the last parameter path resolved against the partition
                \* rules, with the rule that matched and its sharding

vars == << config, ctor_args, pc, args, frame, views, outputs, result,
           raised, held, hist, prev, ncalls, resolved >>

fwdVars == << pc, args, frame, views, outputs, result, raised, held, hist,
              prev, ncalls >>

(* --------------------------- forward inputs ---------------------------- *)
NoIds == [is_none |-> TRUE, rows |-> << >>]

Ids(rows) == [is_none |-> FALSE, rows |-> rows]

NoEmbeds == [is_none |-> TRUE, batch |-> 0, seq |-> 0]

Embeds(b, l) == [is_none |-> FALSE, batch |-> b, seq |-> l]

\* self.embed_tokens(input_ids): one embedding per token, same leading axes.
EmbedTokens(input_ids) ==
    Embeds(Len(input_ids.rows), Len(input_ids.rows[1]))

\* TransformerCache.init_empty(n): one empty view per layer.
InitEmpty(n) == [i \in 1..n |-> 0]

\* The attention step of a decoder layer on its cache view: the call's
\* sequence_length positions are appended to the view.
AttentionCacheUpdate(cache_view, sequence_length) ==
    cache_view + sequence_length

\* attention_mask and position_ids are optional arrays of batch rows.
NoMask == [is_none |-> TRUE, rows |-> << >>]

Mask(rows) == [is_none |-> FALSE, rows |-> rows]

NoPositions == [is_none |-> TRUE, rows |-> << >>]

Positions(rows) == [is_none |-> FALSE, rows |-> rows]

\* output_attentions and output_hidden_states are bool | None and are
\* tested by truthiness (lines 387-388, 397, 412, 420).
Truthy(flag) == ~IsNone(flag) /\ Val(flag)

\* MaskInfo.dynamic_init (lines 362-367): the segment ids of the queries,
\* 1 for a valid token and 0 for a masked one; without an attention mask
\* every token of the input is valid.
QSegmentIds(attention_mask, batch_size, sequence_length) ==
    [b \in 1..batch_size |->
        [p \in 1..sequence_length |->
            IF attention_mask.is_none THEN 1
            ELSE IF attention_mask.rows[b][p] THEN 1 ELSE 0]]

RECURSIVE SumTo(_, _)
SumTo(row, p) == IF p = 0 THEN 0 ELSE SumTo(row, p - 1) + row[p]

\* jnp.cumsum(row, axis=-1) on one row.
CumSum(row) == [p \in 1..Len(row) |-> SumTo(row, p)]

\* jnp.clip(x, min=lo).
Clip(x, lo) == IF x < lo THEN lo ELSE x

\* Lines 369-373: position ids from the segment ids, at shape
\* (batch_size, sequence_length).
DerivePositionIdsNoClip(q_segment_ids, batch_size, sequence_length) ==
    [b \in 1..batch_size |->
        [p \in 1..sequence_length |-> CumSum(q_segment_ids[b])[p] - 1]]

DerivePositionIds(q_segment_ids, batch_size, sequence_length) ==
    [b \in 1..batch_size |->
        [p \in 1..sequence_length |->
            Clip(CumSum(q_segment_ids[b])[p] - 1, 0)]]

NoArgs ==
    [ level |-> "none", input_ids |-> NoIds, inputs_embeds |-> NoEmbeds,
      attention_mask |-> NoMask, position_ids |-> NoPositions,
      mode |-> "None", past_key_values |-> "None",
      output_attentions |-> NoneVal, output_hidden_states |-> NoneVal,
      apply_lm_head |-> FALSE ]

NoTuple == [is_none |-> TRUE, items |-> << >>]

EmptyTuple == [is_none |-> FALSE, items |-> << >>]

TupleAdd(t, x) == [t EXCEPT !.items = Append(t.items, x)]

\* A hidden state is tagged by the number of decoder layers it has passed
\* and by whether the final norm was applied.
Hidden(k, n) == [layers |-> k, normed |-> n]

NoLayerOutputs ==
    [hidden_states |-> Hidden(0, FALSE), attention_weight |-> 0,
     cache_view |-> 0]

NoFrame ==
    [ batch_size |-> 0, sequence_length |-> 0, mode |-> "None",
      q_segment_ids |-> << >>, position_ids |-> << >>,
      past_key_values |-> "None", layer_idx |-> 0,
      hidden_states |-> Hidden(0, FALSE),
      all_hidden_states |-> NoTuple, all_attentions |-> NoTuple,
      layer_outputs |-> NoLayerOutputs ]

NoLogits == [kind |-> "None", at |-> << >>]

NoOutput ==
    [ logits |-> NoLogits, last_hidden_state |-> Hidden(0, FALSE),
      hidden_states |-> NoTuple, attentions |-> NoTuple,
      past_key_values |-> "None" ]

NoHist ==
    [ src |-> "none", views_before |-> << >>, applied |-> 0,
      events |-> << >>, layer_modes |-> << >> ]

NoPrev ==
    [ok |-> FALSE, level |-> "none", no_cache |-> FALSE, views |-> << >>]

NoExc == [exc |-> "", at |-> ""]

NoResolved == [path |-> << >>, rule |-> 0, sharding |-> ""]

Exc(e, cls) == [exc |-> e, at |-> cls]

(* ------------------------ SeedOssModel.__call__ ------------------------ *)
\* Line 348: (input_ids is None) ^ (inputs_embeds is not None).
InputsInvalidNeitherOnly(input_ids, inputs_embeds) ==
    (input_ids.is_none) /\ (inputs_embeds.is_none)

InputsInvalid(input_ids, inputs_embeds) ==
    (input_ids.is_none) # (~inputs_embeds.is_none)

\* Line 357: the assert's condition.
LengthOkStrict(sequence_length, max_position_embeddings) ==
    sequence_length < max_position_embeddings

LengthOk(sequence_length, max_position_embeddings) ==
    sequence_length <= max_position_embeddings

\* Lines 377-382.
InferModeLenOnly(mode, sequence_length, past_key_values) ==
    IF mode = "None"
    THEN (IF sequence_length = 1 THEN "decode" ELSE "train")
    ELSE mode

InferMode(mode, sequence_length, past_key_values) ==
    IF mode = "None"
    THEN (IF sequence_length = 1 /\ past_key_values # "None"
          THEN "decode" ELSE "train")
    ELSE mode

\* The entry of a forward call at any composition level: the heads call
\* self.model(...) with their arguments first (lines 485, 572), so the call
\* runs lines 348-394 of the base model.  src is the caller's choice of
\* cache: none, the cache it holds, or a fresh TransformerCache.init_empty.
CallWith(level, input_ids, inputs_embeds, attention_mask, position_ids, mode, src, oa, ohs, alh) ==
    /\ pc = "idle"
    /\ ncalls < MaxCalls
    /\ src = "held" => held = "cache"
    /\ LET n == config.num_hidden_layers
           supplied == CASE src = "none" -> << >>
                         [] src = "held" -> views
                         [] src = "fresh" -> InitEmpty(n)
           pkv == IF src = "none" THEN "None" ELSE "cache"
           emb == IF inputs_embeds.is_none THEN EmbedTokens(input_ids)
                  ELSE inputs_embeds
           h0 == [NoHist EXCEPT !.src = src, !.views_before = supplied]
           seg == QSegmentIds(attention_mask, emb.batch, emb.seq)
       IN /\ args' = [ level |-> level, input_ids |-> input_ids,
                       inputs_embeds |-> inputs_embeds,
                       attention_mask |-> attention_mask,
                       position_ids |-> position_ids, mode |-> mode,
                       past_key_values |-> pkv, output_attentions |-> oa,
                       output_hidden_states |-> ohs, apply_lm_head |-> alh ]
          /\ hist' = h0
          /\ IF InputsInvalid(input_ids, inputs_embeds)
             THEN /\ pc' = "raised"
                  /\ raised' = Exc("ValueError", "SeedOssModel")
                  /\ views' = supplied
                  /\ frame' = NoFrame
             ELSE IF ~LengthOk(emb.seq, config.max_position_embeddings)
             THEN /\ pc' = "raised"
                  /\ raised' = Exc("AssertionError", "SeedOssModel")
                  /\ views' = supplied
                  /\ frame' = NoFrame
             ELSE /\ pc' = IF n > 0 THEN "layers" ELSE "norm"
                  /\ raised' = NoExc
                  /\ views' = IF pkv = "None" THEN InitEmpty(n) ELSE supplied
                  /\ frame' =
                       [ batch_size |-> emb.batch,
                         sequence_length |-> emb.seq,
                         mode |-> InferMode(mode, emb.seq, pkv),
                         q_segment_ids |-> seg,
                         position_ids |->
                             IF position_ids.is_none
                             THEN DerivePositionIds(seg, emb.batch, emb.seq)
                             ELSE position_ids.rows,
                         past_key_values |-> "cache",
                         layer_idx |-> 0,
                         hidden_states |-> Hidden(0, FALSE),
                         all_hidden_states |->
                             IF Truthy(ohs) THEN EmptyTuple ELSE NoTuple,
                         all_attentions |->
                             IF Truthy(oa) THEN EmptyTuple ELSE NoTuple,
                         layer_outputs |-> NoLayerOutputs ]
    /\ UNCHANGED << resolved, config, ctor_args, outputs, result, held, prev, ncalls >>

\* A call without attention mask and position ids, its flags plain booleans.
Call(level, input_ids, inputs_embeds, mode, src, oa, ohs, alh) ==
    CallWith(level, input_ids, inputs_embeds, NoMask, NoPositions, mode, src,
             Some(oa), Some(ohs), alh)

\* The index of the cache view a layer step uses (line 405, line 415);
\* views are 1-based here, layer_idx is 0-based as in the code.
ViewIndexFirst(layer_idx) == 1

ViewIndex(layer_idx) == layer_idx + 1

\* Lines 397-409: one decoder layer is called with its cache view.
LayerBlock ==
    /\ pc = "layers"
    /\ LET i == frame.layer_idx
           v == views[ViewIndex(i)]
       IN /\ frame' =
               [frame EXCEPT
                  !.all_hidden_states =
                      IF Truthy(args.output_hidden_states)
                      THEN TupleAdd(@, frame.hidden_states) ELSE @,
                  !.layer_outputs =
                      [ hidden_states |->
                            Hidden(frame.hidden_states.layers + 1, FALSE),
                        attention_weight |-> i,
                        cache_view |->
                            AttentionCacheUpdate(v, frame.sequence_length) ]]
          /\ hist' = [hist EXCEPT
                        !.applied = @ + 1,
                        !.events = Append(@, << "read", ViewIndex(i) - 1 >>),
                        !.layer_modes = Append(@, frame.mode)]
    /\ pc' = "store"
    /\ UNCHANGED << resolved, config, ctor_args, args, views, outputs, result, raised,
                    held, prev, ncalls >>

\* Line 415: past_key_values[layer_idx] = layer_outputs.cache_view.
StoreViewDropped(vs, layer_idx, cache_view) == vs

StoreView(vs, layer_idx, cache_view) ==
    [vs EXCEPT ![ViewIndex(layer_idx)] = cache_view]

\* Lines 410-415 and the loop's advance: the layer's outputs are taken over.
LayerStore ==
    /\ pc = "store"
    /\ LET i == frame.layer_idx
           lo == frame.layer_outputs
       IN /\ views' = StoreView(views, i, lo.cache_view)
          /\ frame' =
               [frame EXCEPT
                  !.hidden_states = lo.hidden_states,
                  !.all_attentions =
                      IF Truthy(args.output_attentions)
                      THEN TupleAdd(@, lo.attention_weight) ELSE @,
                  !.layer_idx = i + 1]
          /\ hist' = [hist EXCEPT
                        !.events = Append(@, << "write", ViewIndex(i) - 1 >>)]
          /\ pc' = IF i + 1 < config.num_hidden_layers
                   THEN "layers" ELSE "norm"
    /\ UNCHANGED << resolved, config, ctor_args, args, outputs, result, raised, held,
                    prev, ncalls >>

\* Lines 417-428: final norm and the BaseModelOutput.
BaseModelOutputNoFinal(f) ==
    LET hs == Hidden(f.hidden_states.layers, TRUE)
    IN [ logits |-> NoLogits,
         last_hidden_state |-> hs,
         hidden_states |-> f.all_hidden_states,
         attentions |-> f.all_attentions,
         past_key_values |-> f.past_key_values ]

BaseModelOutput(f) ==
    LET hs == Hidden(f.hidden_states.layers, TRUE)
    IN [ logits |-> NoLogits,
         last_hidden_state |-> hs,
         hidden_states |->
             IF f.all_hidden_states.is_none THEN NoTuple
             ELSE TupleAdd(f.all_hidden_states, hs),
         attentions |-> f.all_attentions,
         past_key_values |-> f.past_key_values ]

ModelReturn ==
    /\ pc = "norm"
    /\ outputs' = BaseModelOutput(frame)
    /\ IF args.level = "model"
       THEN /\ pc' = "done"
            /\ result' = BaseModelOutput(frame)
       ELSE /\ pc' = "head"
            /\ UNCHANGED result
    /\ UNCHANGED << resolved, config, ctor_args, args, frame, views, raised, held,
                    hist, prev, ncalls >>

(* ---------------------- SeedOssForCausalLM.__call__ -------------------- *)
\* Lines 498-515.
CausalLMOutputAlwaysProjected(o, apply_lm_head) ==
    [ logits |-> [kind |-> "full", at |-> << >>],
      last_hidden_state |-> o.last_hidden_state,
      hidden_states |-> o.hidden_states,
      attentions |-> o.attentions,
      past_key_values |-> o.past_key_values ]

CausalLMOutput(o, apply_lm_head) ==
    [ logits |-> IF apply_lm_head
                 THEN [kind |-> "full", at |-> << >>] ELSE NoLogits,
      last_hidden_state |-> o.last_hidden_state,
      hidden_states |-> o.hidden_states,
      attentions |-> o.attentions,
      past_key_values |-> o.past_key_values ]

CausalLMHead ==
    /\ pc = "head"
    /\ args.level = "causal"
    /\ result' = CausalLMOutput(outputs, args.apply_lm_head)
    /\ pc' = "done"
    /\ UNCHANGED << resolved, config, ctor_args, args, frame, views, outputs, raised,
                    held, hist, prev, ncalls >>

(* --------------- SeedOssForSequenceClassification.__call__ ------------- *)
\* jnp.argmax over a row: the 0-based index of the first largest entry.
ArgMax(row) ==
    (CHOOSE i \in 1..Len(row) :
        /\ \A j \in 1..Len(row) : row[j] <= row[i]
        /\ \A j \in 1..(i - 1) : row[j] < row[i]) - 1

\* jnp.equal(input_ids, pad_token_id).astype("i4") on one row.
EqualI4(row, pad) == [j \in 1..Len(row) |-> IF row[j] = pad THEN 1 ELSE 0]

\* Lines 599-600 on one row: (argmax(...) - 1) % input_ids.shape[-1], the
\* remainder taking the sign of the (positive) divisor.
PooledPositionNoWrap(row, pad) == ArgMax(EqualI4(row, pad))

PooledPosition(row, pad) == (ArgMax(EqualI4(row, pad)) - 1) % Len(row)

\* Indexing an axis of length n with a possibly negative index.
AxisIndex(i, n) == IF i < 0 THEN i + n ELSE i

\* Lines 588-591.
PoolBatchSize(a) ==
    IF ~a.input_ids.is_none THEN Len(a.input_ids.rows)
    ELSE a.inputs_embeds.batch

\* Line 593.
PoolRaisesNever(pad_token_id, batch_size) == FALSE

PoolRaises(pad_token_id, batch_size) ==
    IsNone(pad_token_id) /\ batch_size # 1

\* Lines 595-602: sequence_lengths, per row of the batch; the scalar -1 is
\* broadcast over the batch by the indexing of line 604.
SequenceLengthsFirst(a, pad_token_id, batch_size) ==
    [b \in 1..batch_size |-> 0]

SequenceLengths(a, pad_token_id, batch_size) ==
    IF IsNone(pad_token_id) THEN [b \in 1..batch_size |-> -1]
    ELSE IF ~a.input_ids.is_none
    THEN [b \in 1..batch_size |->
             PooledPosition(a.input_ids.rows[b], Val(pad_token_id))]
    ELSE [b \in 1..batch_size |-> -1]

\* Lines 604-611.  logits has the sequence axis of the hidden states; the
\* pooled logits are identified by the position taken in each row.  The
\* cache of the output is the past_key_values argument of the call.
SequenceClassifierOutput(a, o, f, pad_token_id) ==
    LET batch_size == PoolBatchSize(a)
        sl == SequenceLengths(a, pad_token_id, batch_size)
    IN [ logits |-> [kind |-> "pooled",
                     at |-> [b \in 1..batch_size |->
                                AxisIndex(sl[b], f.sequence_length)]],
         last_hidden_state |-> Hidden(0, FALSE),
         hidden_states |-> o.hidden_states,
         attentions |-> o.attentions,
         past_key_values |-> a.past_key_values ]

SeqClsHead ==
    /\ pc = "head"
    /\ args.level = "seqcls"
    /\ IF PoolRaises(config.pad_token_id, PoolBatchSize(args))
       THEN /\ pc' = "raised"
            /\ raised' = Exc("ValueError",
                             "SeedOssForSequenceClassification")
            /\ UNCHANGED result
       ELSE /\ pc' = "done"
            /\ result' = SequenceClassifierOutput(args, outputs, frame,
                                                  config.pad_token_id)
            /\ UNCHANGED raised
    /\ UNCHANGED << resolved, config, ctor_args, args, frame, views, outputs, held,
                    hist, prev, ncalls >>

(* ------------------------------ the caller ----------------------------- *)
\* The call returns or raises to the caller.  After a return the caller
\* holds the cache of the output record; after an exception it still holds
\* the cache object it passed in.
Return ==
    /\ pc \in {"done", "raised"}
    /\ LET h == IF pc = "done" THEN result.past_key_values
                ELSE args.past_key_values
       IN /\ held' = h
          /\ views' = IF h = "None" THEN << >> ELSE views
          /\ prev' = IF pc = "done" /\ h = "cache"
                     THEN [ok |-> TRUE,
                           level |-> args.level,
                           no_cache |-> (args.past_key_values = "None"),
                           views |-> views]
                     ELSE NoPrev
    /\ pc' = "idle"
    /\ args' = NoArgs
    /\ frame' = NoFrame
    /\ outputs' = NoOutput
    /\ result' = NoOutput
    /\ raised' = NoExc
    /\ hist' = NoHist
    /\ ncalls' = ncalls + 1
    /\ UNCHANGED << resolved, config, ctor_args >>

(* --------------------------- specifications ---------------------------- *)
ForwardInit ==
    /\ pc = "idle"
    /\ args = NoArgs
    /\ frame = NoFrame
    /\ views = << >>
    /\ outputs = NoOutput
    /\ result = NoOutput
    /\ raised = NoExc
    /\ held = "None"
    /\ hist = NoHist
    /\ prev = NoPrev
    /\ ncalls = 0
    /\ resolved = NoResolved

\* Configurations of the forward specification.
ForwardConfigArgs ==
    { [DefaultArgs EXCEPT !.num_hidden_layers = n,
                          !.max_position_embeddings = m,
                          !.pad_token_id = p] :
        n \in 1..MaxLayers, m \in 1..MaxPos, p \in {NoneVal, Some(PadId)} }

Init ==
    /\ ctor_args \in ForwardConfigArgs
    /\ config = SeedOssConfig(ctor_args)
    /\ ForwardInit

\* A row of l tokens, none of them the pad token.
Row(l) == [j \in 1..l |-> 5]

Levels == {"model", "causal", "seqcls"}

Modes == {"None", "train", "decode"}

Sources == {"none", "held", "fresh"}

\* Sequence lengths reach one past the largest configured maximum.
SeqLens == 1..(MaxPos + 1)

IdsShapes == { Ids([b \in 1..bs |-> Row(l)]) : bs \in 1..MaxBatch, l \in SeqLens }

EmbedsShapes == { Embeds(bs, l) : bs \in 1..MaxBatch, l \in SeqLens }

Forward ==
    /\ pc = "idle"
    /\ \E level \in Levels, mode \in Modes, src \in Sources,
          input_ids \in IdsShapes \cup {NoIds},
          inputs_embeds \in EmbedsShapes \cup {NoEmbeds} :
        Call(level, input_ids, inputs_embeds, mode, src, FALSE, FALSE, TRUE)

Next ==
    \/ Forward
    \/ LayerBlock
    \/ LayerStore
    \/ ModelReturn
    \/ CausalLMHead
    \/ SeqClsHead
    \/ Return

Spec == Init /\ [][Next]_vars

(* ------------------- specification of the pooling rule ----------------- *)
\* A single classification call.  One layer, room for the longest row;
\* input_ids range over all rows of pad and non-pad tokens.
PoolConfigArgs ==
    { [DefaultArgs EXCEPT !.num_hidden_layers = 1,
                          !.max_position_embeddings = MaxPoolLen,
                          !.pad_token_id = p] :
        p \in {NoneVal, Some(PadId)} }

InitPool ==
    /\ ctor_args \in PoolConfigArgs
    /\ config = SeedOssConfig(ctor_args)
    /\ ForwardInit

Tokens == {PadId, 5, 7}

\* Rows of length l: the first row of a batch ranges over all rows of
\* Tokens, the further rows over all patterns of pad and non-pad tokens.
PoolRows(l) == [1..l -> Tokens]

PadPatterns(l) == [1..l -> {PadId, 5}]

ForwardPool ==
    /\ pc = "idle"
    /\ \E bs \in 1..MaxBatch, l \in 1..MaxPoolLen :
        \E first \in PoolRows(l), rest \in [2..bs -> PadPatterns(l)] :
            Call("seqcls",
                 Ids([b \in 1..bs |-> IF b = 1 THEN first ELSE rest[b]]),
                 NoEmbeds, "None", "none", FALSE, FALSE, TRUE)

ForwardPoolEmbeds ==
    /\ pc = "idle"
    /\ \E bs \in 1..MaxBatch, l \in 1..MaxPoolLen :
        Call("seqcls", NoIds, Embeds(bs, l), "None", "none", FALSE, FALSE,
             TRUE)

NextPool ==
    \/ ForwardPool
    \/ ForwardPoolEmbeds
    \/ LayerBlock
    \/ LayerStore
    \/ ModelReturn
    \/ SeqClsHead

SpecPool == InitPool /\ [][NextPool]_vars

(* ------------------ specification of the position ids ----------------- *)
\* A single base-model call.  One layer, room for the longest row; the
\* attention mask is absent or given, the position ids are absent or given.
PosConfigArgs ==
    [DefaultArgs EXCEPT !.num_hidden_layers = 1,
                        !.max_position_embeddings = MaxPoolLen]

InitPos ==
    /\ ctor_args = PosConfigArgs
    /\ config = SeedOssConfig(ctor_args)
    /\ ForwardInit

\* Mask rows of length l: the first row of a batch ranges over all masks,
\* the further rows over the left-padded and the right-padded ones.
MaskRows(l) == [1..l -> BOOLEAN]

PaddedMaskRows(l) ==
    { [p \in 1..l |-> p > k] : k \in 0..l } \cup
    { [p \in 1..l |-> p <= k] : k \in 0..l }

\* Position ids a caller passes: the positions after a prefix of two.
GivenPositions(bs, l) == Positions([b \in 1..bs |-> [p \in 1..l |-> p + 1]])

ForwardPos ==
    /\ pc = "idle"
    /\ \E bs \in 1..MaxBatch, l \in 1..MaxPoolLen :
        \E first \in MaskRows(l), rest \in [2..bs -> PaddedMaskRows(l)],
           masked \in BOOLEAN,
           position_ids \in {NoPositions, GivenPositions(bs, l)} :
            CallWith("model", Ids([b \in 1..bs |-> Row(l)]), NoEmbeds,
                     IF masked
                     THEN Mask([b \in 1..bs |->
                                   IF b = 1 THEN first ELSE rest[b]])
                     ELSE NoMask,
                     position_ids, "None", "none", NoneVal, NoneVal, TRUE)

NextPos ==
    \/ ForwardPos
    \/ LayerBlock
    \/ LayerStore
    \/ ModelReturn

SpecPos == InitPos /\ [][NextPos]_vars

(* ------------------ specification of the output traces ---------------- *)
\* A single call of the base model or of the causal-LM head, over every
\* value of the output flags; the model may have no layer at all.
TraceConfigArgs ==
    { [DefaultArgs EXCEPT !.num_hidden_layers = n,
                          !.max_position_embeddings = MaxPos] :
        n \in 0..MaxLayers }

InitTrace ==
    /\ ctor_args \in TraceConfigArgs
    /\ config = SeedOssConfig(ctor_args)
    /\ ForwardInit

\* output_attentions and output_hidden_states: bool | None.
OutputFlags == {NoneVal, Some(FALSE), Some(TRUE)}

ForwardTrace ==
    /\ pc = "idle"
    /\ \E level \in {"model", "causal"}, src \in {"none", "fresh"},
          bs \in 1..MaxBatch, l \in 1..MaxPos,
          oa \in OutputFlags, ohs \in OutputFlags, alh \in BOOLEAN :
        CallWith(level, Ids([b \in 1..bs |-> Row(l)]), NoEmbeds, NoMask,
                 NoPositions, "None", src, oa, ohs, alh)

NextTrace ==
    \/ ForwardTrace
    \/ LayerBlock
    \/ LayerStore
    \/ ModelReturn
    \/ CausalLMHead

SpecTrace == InitTrace /\ [][NextTrace]_vars

(* ---------------- specification of config construction ----------------- *)
ThetaValues == {0, 500000, 1000000}

\* rope_parameters payloads: absent, empty, with and without a rope_theta
\* entry (which may hold None), with and without scaling fields.
RopeParameterValues ==
    {NoDict, Dict(<< >>)}
    \cup { Dict([k \in {"rope_theta"} |-> t]) :
             t \in {NoneVal} \cup {Some(v) : v \in ThetaValues} }
    \cup { Dict([k \in {"rope_type"} |-> Some(1)]) }
    \cup { Dict([k \in {"rope_theta", "rope_type"} |->
                   IF k = "rope_theta" THEN t ELSE Some(1)]) :
             t \in {NoneVal} \cup {Some(v) : v \in ThetaValues} }

\* **kwargs of a construction: rope_theta and rope_scaling are named
\* parameters, so neither key can arrive in kwargs.
KwargsValues == { << >>, [k \in {"name_or_path"} |-> Some(0)] }

ConfigArgs ==
    { [DefaultArgs EXCEPT !.rope_parameters = rp,
                          !.rope_theta = t,
                          !.kwargs = kw,
                          !.num_attention_heads = h] :
        rp \in RopeParameterValues,
        t \in {NoneVal} \cup {Some(v) : v \in ThetaValues},
        kw \in KwargsValues,
        h \in 1..MaxHeads }

InitConfig ==
    /\ ctor_args = DefaultArgs
    /\ config = SeedOssConfig(DefaultArgs)
    /\ ForwardInit

Construct ==
    /\ \E a \in ConfigArgs :
        /\ ctor_args' = a
        /\ config' = SeedOssConfig(a)
    /\ UNCHANGED << fwdVars, resolved >>

\* layer_types arguments: absent, empty, and explicit lists of every length
\* up to one more than the largest layer count.
LayerTypeNames == {"full_attention", "sliding_attention"}

LayerTypesValues ==
    {NoneVal, Some(<< >>)}
    \cup UNION { { Some(lt) : lt \in [1..n -> LayerTypeNames] } :
                   n \in 1..(MaxLayers + 1) }

LayerArgs ==
    { [DefaultArgs EXCEPT !.num_hidden_layers = n, !.layer_types = lt] :
        n \in 0..MaxLayers, lt \in LayerTypesValues }

ConstructLayers ==
    /\ \E a \in LayerArgs :
        /\ ctor_args' = a
        /\ config' = SeedOssConfig(a)
    /\ UNCHANGED << fwdVars, resolved >>

\* head_dim arguments: absent or explicit, with every pair of hidden_size and
\* num_attention_heads, divisible or not.
HeadArgs ==
    { [DefaultArgs EXCEPT !.hidden_size = hs, !.num_attention_heads = h,
                          !.head_dim = hd] :
        hs \in 1..MaxHidden, h \in 1..MaxHeads,
        hd \in {NoneVal} \cup {Some(v) : v \in 1..MaxHidden} }

ConstructHeads ==
    /\ \E a \in HeadArgs :
        /\ ctor_args' = a
        /\ config' = SeedOssConfig(a)
    /\ UNCHANGED << fwdVars, resolved >>

\* SeedOssConfig.get_mask_details: one entry per element of layer_types.
GetMaskDetails(cfg) ==
    [idx \in 0..(Len(cfg.layer_types) - 1) |-> cfg.layer_types[idx + 1]]

NextConfig ==
    \/ Construct
    \/ ConstructLayers
    \/ ConstructHeads

SpecConfig == InitConfig /\ [][NextConfig]_vars

(* ----------------- SeedOssConfig.get_partition_rules ------------------- *)
\* A parameter path is the sequence of its segments; the path name is the
\* segments joined by "/".  A pattern is searched for anywhere in the name.
\* Segments are atomic here, so the few cases in which a literal of a
\* pattern can match a part of a segment are tabulated.
Projections ==
    {"q_proj", "k_proj", "v_proj", "o_proj", "gate_proj", "up_proj",
     "down_proj"}

NormNames == {"input_layernorm", "post_attention_layernorm", "norm"}

\* seg ends with the literal lit.
EndsWith(seg, lit) ==
    \/ seg = lit
    \/ lit = "proj" /\ seg \in Projections
    \/ lit = "norm" /\ seg \in NormNames

\* seg starts with the literal lit: no segment of the model's parameter tree
\* has another one as a proper prefix.
StartsWith(seg, lit) == seg = lit

\* "a/b" occurs in the name: a segment ending with a, followed by a segment
\* starting with b.
HasPair(path, a, b) ==
    \E i \in 1..(Len(path) - 1) :
        EndsWith(path[i], a) /\ StartsWith(path[i + 1], b)

\* "a/(m1|m2|...)/c" occurs in the name.
HasTriple(path, a, mids, c) ==
    \E i \in 1..(Len(path) - 2) :
        /\ EndsWith(path[i], a)
        /\ path[i + 1] \in mids
        /\ StartsWith(path[i + 2], c)

\* Lines 178-193: the patterns, each by what its regular expression finds.
PatternMatches(pattern, path) ==
    CASE pattern = "embed_tokens/embedding" ->
            HasPair(path, "embed_tokens", "embedding")
      [] pattern = "self_attn/(q_proj|k_proj|v_proj)/kernel" ->
            HasTriple(path, "self_attn", {"q_proj", "k_proj", "v_proj"},
                      "kernel")
      [] pattern = "self_attn/o_proj/kernel" ->
            HasTriple(path, "self_attn", {"o_proj"}, "kernel")
      [] pattern = "self_attn/(q_proj|k_proj|v_proj)/bias" ->
            HasTriple(path, "self_attn", {"q_proj", "k_proj", "v_proj"},
                      "bias")
      [] pattern = "self_attn/o_proj/bias" ->
            HasTriple(path, "self_attn", {"o_proj"}, "bias")
      [] pattern = "mlp/(gate_proj|up_proj)/kernel" ->
            HasTriple(path, "mlp", {"gate_proj", "up_proj"}, "kernel")
      [] pattern = "mlp/down_proj/kernel" ->
            HasTriple(path, "mlp", {"down_proj"}, "kernel")
      [] pattern = "mlp/.*proj/bias" ->
            \E i \in 1..Len(path) : \E j \in (i + 1)..(Len(path) - 1) :
                /\ EndsWith(path[i], "mlp")
                /\ EndsWith(path[j], "proj")
                /\ StartsWith(path[j + 1], "bias")
      [] pattern = ".*/(input_layernorm|post_attention_layernorm|norm)/kernel" ->
            \E i \in 2..(Len(path) - 1) :
                path[i] \in NormNames /\ StartsWith(path[i + 1], "kernel")
      [] pattern = "lm_head/kernel" -> HasPair(path, "lm_head", "kernel")
      [] pattern = "score/kernel" -> HasPair(path, "score", "kernel")
      [] pattern = ".*bias" -> \E i \in 1..Len(path) : path[i] = "bias"
      [] pattern = ".*" -> TRUE

Rule(pattern, sharding) == [pattern |-> pattern, sharding |-> sharding]

\* Lines 177-194: the ordered rules.
GetPartitionRulesCatchAllFirst ==
    << Rule(".*", "Replicated"),
       Rule("embed_tokens/embedding", "ColumnWise"),
       Rule("self_attn/(q_proj|k_proj|v_proj)/kernel", "ColumnWise"),
       Rule("self_attn/o_proj/kernel", "RowWise"),
       Rule("self_attn/(q_proj|k_proj|v_proj)/bias", "Replicated"),
       Rule("self_attn/o_proj/bias", "Replicated"),
       Rule("mlp/(gate_proj|up_proj)/kernel", "ColumnWise"),
       Rule("mlp/down_proj/kernel", "RowWise"),
       Rule("mlp/.*proj/bias", "Replicated"),
       Rule(".*/(input_layernorm|post_attention_layernorm|norm)/kernel",
            "Replicated"),
       Rule("lm_head/kernel", "ColumnWise"),
       Rule("score/kernel", "RowWise"),
       Rule(".*bias", "Replicated") >>

GetPartitionRules ==
    << Rule("embed_tokens/embedding", "ColumnWise"),
       Rule("self_attn/(q_proj|k_proj|v_proj)/kernel", "ColumnWise"),
       Rule("self_attn/o_proj/kernel", "RowWise"),
       Rule("self_attn/(q_proj|k_proj|v_proj)/bias", "Replicated"),
       Rule("self_attn/o_proj/bias", "Replicated"),
       Rule("mlp/(gate_proj|up_proj)/kernel", "ColumnWise"),
       Rule("mlp/down_proj/kernel", "RowWise"),
       Rule("mlp/.*proj/bias", "Replicated"),
       Rule(".*/(input_layernorm|post_attention_layernorm|norm)/kernel",
            "Replicated"),
       Rule("lm_head/kernel", "ColumnWise"),
       Rule("score/kernel", "RowWise"),
       Rule(".*bias", "Replicated"),
       Rule(".*", "Replicated") >>

\* The rules are applied to a path in order and the first match wins.
FirstMatch(rules, path) ==
    CHOOSE k \in 1..Len(rules) :
        /\ PatternMatches(rules[k].pattern, path)
        /\ \A j \in 1..(k - 1) : ~PatternMatches(rules[j].pattern, path)

\* The parameter tree of the three model classes: the base model's own
\* paths, the same under "model" in the heads, and the heads' projections.
\* "scale" stands for a leaf that no specific rule names.
Leaves == {"kernel", "bias", "scale"}

LayerPaths ==
    { << "layers", ToString(i), blk[1], blk[2], leaf >> :
        i \in 0..(MaxLayers - 1),
        blk \in ({"self_attn"} \X {"q_proj", "k_proj", "v_proj", "o_proj"})
                \cup ({"mlp"} \X {"gate_proj", "up_proj", "down_proj"}),
        leaf \in Leaves }
    \cup { << "layers", ToString(i), nrm, leaf >> :
             i \in 0..(MaxLayers - 1),
             nrm \in {"input_layernorm", "post_attention_layernorm"},
             leaf \in Leaves }

BasePaths ==
    LayerPaths
    \cup { << "embed_tokens", "embedding" >> }
    \cup { << "norm", leaf >> : leaf \in Leaves }

ParamPaths ==
    BasePaths
    \cup { << "model" >> \o p : p \in BasePaths }
    \cup { << h, leaf >> : h \in {"lm_head", "score"}, leaf \in Leaves }

InitRules ==
    /\ ctor_args = DefaultArgs
    /\ config = SeedOssConfig(DefaultArgs)
    /\ ForwardInit

ResolveParam ==
    /\ \E path \in ParamPaths :
        LET rules == GetPartitionRules
            k == FirstMatch(rules, path)
        IN resolved' = [path |-> path, rule |-> k,
                        sharding |-> rules[k].sharding]
    /\ UNCHANGED << fwdVars, config, ctor_args >>

NextRules == ResolveParam

SpecRules == InitRules /\ [][NextRules]_vars

(* ------------------------------- claims -------------------------------- *)
\* The sequence axis of the embeddings of the call in progress, supplied or
\* looked up from input_ids.
EmbeddingsOf(a) ==
    IF a.inputs_embeds.is_none THEN EmbedTokens(a.input_ids)
    ELSE a.inputs_embeds

ExactlyOneInput(a) == a.input_ids.is_none # a.inputs_embeds.is_none

Started == pc # "idle"

Finished == pc \in {"done", "raised"}

RaisedAt(e, cls) == pc = "raised" /\ raised = Exc(e, cls)

\* C1: a call raises the base model's ValueError when input_ids and
\* inputs_embeds are both given and when neither is given, and does not
\* raise it when exactly one of them is given.
C1_ExactlyOneOfInputs ==
    Started =>
        (RaisedAt("ValueError", "SeedOssModel") <=> ~ExactlyOneInput(args))

C1_Witness ==
    /\ RaisedAt("ValueError", "SeedOssModel")
    /\ ~args.input_ids.is_none
    /\ ~args.inputs_embeds.is_none

\* C2: with valid inputs the call fails the length check exactly when the
\* sequence axis of the embeddings (supplied, or looked up from input_ids)
\* exceeds max_position_embeddings; a length equal to the maximum passes and
\* is the call's sequence_length.
C2_LengthCheck ==
    (Started /\ ExactlyOneInput(args)) =>
        LET l == EmbeddingsOf(args).seq
            m == config.max_position_embeddings
        IN /\ RaisedAt("AssertionError", "SeedOssModel") <=> l > m
           /\ l <= m => frame.sequence_length = l

C2_Witness ==
    /\ RaisedAt("AssertionError", "SeedOssModel")
    /\ ~args.input_ids.is_none
    /\ Len(args.input_ids.rows[1]) = config.max_position_embeddings + 1

\* C3 (as claimed): on every error outcome no decoder layer has been applied
\* and the caller-supplied cache is exactly as it was before the call.
C3_NoEffectBeforeError ==
    pc = "raised" =>
        /\ hist.applied = 0
        /\ args.past_key_values = "cache" => views = hist.views_before

\* The mode handed to the layers so far is m.
LayersGot(m) ==
    \A k \in 1..Len(hist.layer_modes) : hist.layer_modes[k] = m

CacheNonEmpty(vs) == \E i \in 1..Len(vs) : vs[i] > 0

\* C4 (as claimed): with mode unset the layers get "decode" exactly when the
\* sequence length is 1 and a non-empty prior cache is supplied, "train"
\* otherwise; an explicit mode is handed on unchanged.
C4_ModeNonEmptyCache ==
    pc \in {"layers", "store", "norm", "head", "done"} =>
        IF args.mode = "None"
        THEN LayersGot(IF /\ frame.sequence_length = 1
                          /\ args.past_key_values = "cache"
                          /\ CacheNonEmpty(hist.views_before)
                       THEN "decode" ELSE "train")
        ELSE LayersGot(args.mode)

\* C4 (amended): with mode unset the layers get "decode" exactly when the
\* sequence length is 1 and a prior cache is supplied (past_key_values is
\* not None), whether or not that cache holds entries, and "train"
\* otherwise; an explicit mode is handed on unchanged.
C4_ModeInference ==
    pc \in {"layers", "store", "norm", "head", "done"} =>
        /\ Len(hist.layer_modes) = hist.applied
        /\ IF args.mode = "None"
           THEN LayersGot(IF /\ frame.sequence_length = 1
                             /\ args.past_key_values = "cache"
                          THEN "decode" ELSE "train")
           ELSE LayersGot(args.mode)

C4_Witness ==
    /\ pc = "done"
    /\ args.mode = "None"
    /\ hist.src = "fresh"
    /\ frame.sequence_length = 1
    /\ Len(hist.layer_modes) = config.num_hidden_layers
    /\ LayersGot("decode")

\* The cache events of a call in layer order: read i, write i for
\* i = 0, 1, ...
ExpectedEvent(k) ==
    << IF k % 2 = 1 THEN "read" ELSE "write", (k - 1) \div 2 >>

\* Views change only in the store step of a layer, and only that layer's.
OnlyOwnViewChanges ==
    pc \in {"layers", "store", "norm", "head"} =>
        /\ Len(views') = Len(views)
        /\ \A j \in 1..Len(views) :
               views'[j] # views[j] =>
                   (pc = "store" /\ j = frame.layer_idx + 1)

EventsInLayerOrder ==
    /\ \A k \in 1..Len(hist.events) : hist.events[k] = ExpectedEvent(k)
    /\ pc \in {"norm", "head", "done"} =>
           Len(hist.events) = 2 * config.num_hidden_layers

\* C5: the layers run in index order; the step of layer i reads view i
\* before it writes view i and touches no other view; after the last layer
\* every view has been written exactly once.
C5_LayerOwnView == []EventsInLayerOrder /\ [][OnlyOwnViewChanges]_vars

C5_Witness ==
    /\ pc = "done"
    /\ config.num_hidden_layers >= 2
    /\ Len(hist.events) = 2 * config.num_hidden_layers

\* C6: when the previous call was made without a cache and this call is made
\* with the cache that call returned and a single new token, the returned
\* cache holds num_hidden_layers views and every view records exactly one
\* more position than after the previous call.
C6_RoundTrip ==
    ( /\ pc = "done"
      /\ prev.ok /\ prev.no_cache
      /\ hist.src = "held"
      /\ frame.sequence_length = 1 ) =>
        /\ result.past_key_values = "cache"
        /\ Len(views) = config.num_hidden_layers
        /\ Len(prev.views) = config.num_hidden_layers
        /\ \A i \in 1..Len(views) : views[i] = prev.views[i] + 1

C6_Witness ==
    /\ pc = "done"
    /\ args.level = "model"
    /\ prev.ok /\ prev.no_cache /\ prev.level = "model"
    /\ hist.src = "held"
    /\ frame.sequence_length = 1
    /\ config.num_hidden_layers >= 2
    /\ \A i \in 1..Len(views) : views[i] >= 2

\* C7 (as claimed): after a successful call the output record of every
\* level carries the cache the layer stack updated, never an absent one.
C7_OutputCarriesCache ==
    pc = "done" => result.past_key_values = frame.past_key_values

\* The 0-based indices of the pad tokens of a row.
PadIndices(row, pad) == { j - 1 : j \in { k \in 1..Len(row) : row[k] = pad } }

FirstPad(row, pad) ==
    CHOOSE i \in PadIndices(row, pad) : \A j \in PadIndices(row, pad) : i <= j

\* C8: with a pad token configured and input_ids supplied, the pooled
\* position of every row is one before its first pad token when that token
\* is at index 1 or later, the final position when the row has no pad token
\* (and when it starts with one), and always a position of the row.
C8_PooledPosition ==
    ( /\ pc = "done"
      /\ args.level = "seqcls"
      /\ ~IsNone(config.pad_token_id)
      /\ ~args.input_ids.is_none ) =>
        \A b \in 1..Len(args.input_ids.rows) :
            LET row == args.input_ids.rows[b]
                pad == Val(config.pad_token_id)
                at == result.logits.at[b]
            IN /\ at \in 0..(Len(row) - 1)
               /\ IF PadIndices(row, pad) # {} /\ FirstPad(row, pad) >= 1
                  THEN at = FirstPad(row, pad) - 1
                  ELSE at = Len(row) - 1

C8_Witness ==
    /\ pc = "done"
    /\ args.level = "seqcls"
    /\ config.pad_token_id = Some(1)
    /\ args.input_ids = Ids(<< << 5, 7, 1, 1 >> >>)
    /\ result.logits.at = << 1 >>

\* C9: with no pad token configured, a classification call whose batch size
\* (of input_ids when supplied, of inputs_embeds otherwise) is not 1 fails,
\* with the head's ValueError unless the base model raised first; with
\* batch size 1 the head does not raise and pools the last position.
C9_NoPadBatch ==
    ( /\ Finished
      /\ args.level = "seqcls"
      /\ IsNone(config.pad_token_id)
      /\ ExactlyOneInput(args) ) =>
        LET bs == IF ~args.input_ids.is_none THEN Len(args.input_ids.rows)
                  ELSE args.inputs_embeds.batch
        IN IF bs # 1
           THEN \/ RaisedAt("ValueError", "SeedOssForSequenceClassification")
                \/ RaisedAt("AssertionError", "SeedOssModel")
           ELSE \/ /\ pc = "done"
                   /\ result.logits.at = << EmbeddingsOf(args).seq - 1 >>
                \/ RaisedAt("AssertionError", "SeedOssModel")

C9_Witness ==
    /\ RaisedAt("ValueError", "SeedOssForSequenceClassification")
    /\ IsNone(config.pad_token_id)
    /\ args.input_ids.is_none
    /\ args.inputs_embeds.batch = 2

\* The rope_theta entry of the rope_parameters argument, None when the
\* argument or the entry is absent.
ParamsTheta(a) ==
    IF a.rope_parameters.is_none THEN NoneVal
    ELSE IF "rope_theta" \in DOMAIN a.rope_parameters.d
    THEN a.rope_parameters.d["rope_theta"] ELSE NoneVal

LegacyTheta(a) ==
    IF "rope_theta" \in DOMAIN a.kwargs THEN a.kwargs["rope_theta"]
    ELSE NoneVal

\* C10: the resolved rope_theta is the value of the highest-precedence
\* input that is present, in the order rope_parameters["rope_theta"],
\* rope_theta argument, legacy keyword, and 10000.0 when none is present.
C10_RopeThetaPrecedence ==
    config.rope_theta =
        IF ~IsNone(ParamsTheta(ctor_args)) THEN Val(ParamsTheta(ctor_args))
        ELSE IF ~IsNone(ctor_args.rope_theta) THEN Val(ctor_args.rope_theta)
        ELSE IF ~IsNone(LegacyTheta(ctor_args))
        THEN Val(LegacyTheta(ctor_args))
        ELSE 10000

C10_Witness ==
    /\ ~IsNone(ParamsTheta(ctor_args))
    /\ ~IsNone(ctor_args.rope_theta)
    /\ ParamsTheta(ctor_args) # ctor_args.rope_theta
    /\ config.rope_theta = Val(ParamsTheta(ctor_args))

\* C11 (as claimed): after construction len(layer_types) equals
\* num_hidden_layers, whatever layer_types argument was given; so
\* get_mask_details has one entry per layer.
C11_LayerTypesLength ==
    /\ Len(config.layer_types) = config.num_hidden_layers
    /\ DOMAIN GetMaskDetails(config) = 0..(config.num_hidden_layers - 1)

\* Floor division stated by its bounds.
IsFloorQuotient(q, a, b) == q * b <= a /\ a < (q + 1) * b

\* C12 (as claimed): head_dim is the explicit argument when given; otherwise
\* head_dim * num_attention_heads = hidden_size.
C12_HeadDimExact ==
    IF ~IsNone(ctor_args.head_dim)
    THEN config.head_dim = Val(ctor_args.head_dim)
    ELSE config.head_dim * config.num_attention_heads = config.hidden_size

\* C12 (amended): head_dim is the explicit argument when given; otherwise it
\* is the floor of hidden_size / num_attention_heads, so that
\* head_dim * num_attention_heads = hidden_size exactly when
\* num_attention_heads divides hidden_size.
C12_HeadDimFloor ==
    IF ~IsNone(ctor_args.head_dim)
    THEN config.head_dim = Val(ctor_args.head_dim)
    ELSE /\ IsFloorQuotient(config.head_dim, config.hidden_size,
                            config.num_attention_heads)
         /\ (config.head_dim * config.num_attention_heads
                 = config.hidden_size)
            <=> (config.hidden_size % config.num_attention_heads = 0)

C12_Witness ==
    /\ IsNone(ctor_args.head_dim)
    /\ config.hidden_size = 5
    /\ config.num_attention_heads = 2
    /\ config.head_dim = 2

\* The last n segments of a path.
LastSegs(path, n) == SubSeq(path, Len(path) - n + 1, Len(path))

EndsIn2(path, as, bs) ==
    Len(path) >= 2 /\ LastSegs(path, 2)[1] \in as /\ LastSegs(path, 2)[2] \in bs

EndsIn3(path, a, bs, c) ==
    Len(path) >= 3 /\ LastSegs(path, 3) \in ({a} \X bs \X {c})

\* The rules before the two trailing catch-alls (".*bias" and ".*").
SpecificRules == 1..(Len(GetPartitionRules) - 2)

MatchesSpecific(path) ==
    \E k \in SpecificRules :
        PatternMatches(GetPartitionRules[k].pattern, path)

\* C13: first-match resolution shards the embedding table and the
\* q/k/v/gate/up kernels column-wise, the o_proj and down_proj kernels
\* row-wise, replicates every norm kernel, every bias and every path that no
\* specific rule matches, and never lets a catch-all decide a path that a
\* specific rule matches.
C13_FirstMatchSharding ==
    resolved # NoResolved =>
        LET path == resolved.path
            sh == resolved.sharding
        IN /\ EndsIn2(path, {"embed_tokens"}, {"embedding"})
                  => sh = "ColumnWise"
           /\ EndsIn3(path, "self_attn", {"q_proj", "k_proj", "v_proj"},
                      "kernel") => sh = "ColumnWise"
           /\ EndsIn3(path, "mlp", {"gate_proj", "up_proj"}, "kernel")
                  => sh = "ColumnWise"
           /\ EndsIn3(path, "self_attn", {"o_proj"}, "kernel")
                  => sh = "RowWise"
           /\ EndsIn3(path, "mlp", {"down_proj"}, "kernel") => sh = "RowWise"
           /\ EndsIn2(path, NormNames, {"kernel"}) => sh = "Replicated"
           /\ path[Len(path)] = "bias" => sh = "Replicated"
           /\ ~MatchesSpecific(path) => sh = "Replicated"
           /\ MatchesSpecific(path) => resolved.rule \in SpecificRules

C13_Witness ==
    /\ resolved.path
         = << "model", "layers", "0", "self_attn", "q_proj", "kernel" >>
    /\ resolved.rule = 2
    /\ resolved.sharding = "ColumnWise"
    /\ PatternMatches(".*", resolved.path)

(* C14 -- position ids *)
ValidAt(b, p) == args.attention_mask.is_none \/ args.attention_mask.rows[b][p]

ValidBefore(b, p) == Cardinality({q \in 1..(p - 1) : ValidAt(b, q)})

PositionsOf(b) == 1..frame.sequence_length

\* C14 as stated: without passed position ids, the position id of every
\* position (0-based id, 1-based p here) is the number of valid tokens
\* strictly before it, never negative, for every attention mask; passed
\* position ids are used unchanged.
C14_PositionIdsStrictCount ==
    frame # NoFrame =>
        IF args.position_ids.is_none
        THEN \A b \in 1..frame.batch_size : \A p \in PositionsOf(b) :
                /\ frame.position_ids[b][p] >= 0
                /\ frame.position_ids[b][p] = ValidBefore(b, p)
        ELSE frame.position_ids = args.position_ids.rows

\* C14 amended: without passed position ids, the position id is never
\* negative; at a valid position it is the number of valid tokens strictly
\* before it; at a masked position it is one less than that number, and 0
\* when no valid token precedes it; an unmasked row of length L gets
\* 0..L-1.  Passed position ids are used unchanged.
C14_PositionIds ==
    frame # NoFrame =>
        IF args.position_ids.is_none
        THEN \A b \in 1..frame.batch_size :
                /\ \A p \in PositionsOf(b) :
                      /\ frame.position_ids[b][p] >= 0
                      /\ ValidAt(b, p) =>
                            frame.position_ids[b][p] = ValidBefore(b, p)
                      /\ ~ValidAt(b, p) =>
                            frame.position_ids[b][p] =
                                IF ValidBefore(b, p) = 0 THEN 0
                                ELSE ValidBefore(b, p) - 1
                /\ (\A p \in PositionsOf(b) : ValidAt(b, p)) =>
                      \A p \in PositionsOf(b) :
                          frame.position_ids[b][p] = p - 1
        ELSE frame.position_ids = args.position_ids.rows

\* A finished call that derived the position ids of a row masked both
\* before its first valid token and after a valid token.
C14_Witness ==
    /\ pc = "done"
    /\ args.position_ids.is_none
    /\ \E b \in 1..frame.batch_size : \E p, q, r \in PositionsOf(b) :
          /\ p < q /\ q < r
          /\ ~ValidAt(b, p) /\ ValidAt(b, q) /\ ~ValidAt(b, r)

(* C15 -- logits and frame of the causal-LM head *)
\* C15: the causal-LM output has no logits exactly when apply_lm_head is
\* false and has them exactly when it is true; its last hidden state, its
\* hidden-state trace, its attention trace and its cache are those of the
\* base model's output.
C15_LogitsAndFrame ==
    (pc = "done" /\ args.level = "causal") =>
        /\ (result.logits = NoLogits) <=> ~args.apply_lm_head
        /\ (result.logits.kind = "full") <=> args.apply_lm_head
        /\ outputs = BaseModelOutput(frame)
        /\ result.last_hidden_state = outputs.last_hidden_state
        /\ result.hidden_states = outputs.hidden_states
        /\ result.attentions = outputs.attentions
        /\ result.past_key_values = outputs.past_key_values

\* A causal-LM call that skipped the projection and returned both traces.
C15_Witness ==
    /\ pc = "done"
    /\ args.level = "causal"
    /\ ~args.apply_lm_head
    /\ result.logits = NoLogits
    /\ Len(result.hidden_states.items) > 1
    /\ Len(result.attentions.items) > 0

(* C16 -- hidden-state and attention traces *)
\* C16: after a successful base-model call over N layers, a set
\* output_hidden_states gives a trace of N + 1 entries, entry i (i < N) the
\* input of layer i and entry N the final normalized hidden state, and an
\* unset flag gives no trace; a set output_attentions gives a trace of N
\* entries in layer order, and an unset flag gives no trace.
C16_Traces ==
    (pc = "done" /\ args.level = "model") =>
        LET N == config.num_hidden_layers
            hs == result.hidden_states
            at == result.attentions
        IN /\ IF Truthy(args.output_hidden_states)
              THEN /\ ~hs.is_none
                   /\ Len(hs.items) = N + 1
                   /\ \A i \in 0..(N - 1) : hs.items[i + 1] = Hidden(i, FALSE)
                   /\ hs.items[N + 1] = Hidden(N, TRUE)
                   /\ hs.items[N + 1] = result.last_hidden_state
              ELSE hs.is_none
           /\ IF Truthy(args.output_attentions)
              THEN /\ ~at.is_none
                   /\ Len(at.items) = N
                   /\ \A i \in 0..(N - 1) : at.items[i + 1] = i
              ELSE at.is_none

\* A base-model call over more than one layer that returned both traces.
C16_Witness ==
    /\ pc = "done"
    /\ args.level = "model"
    /\ config.num_hidden_layers > 1
    /\ Truthy(args.output_hidden_states)
    /\ Truthy(args.output_attentions)
    /\ Len(result.hidden_states.items) = config.num_hidden_layers + 1
    /\ Len(result.attentions.items) = config.num_hidden_layers

====
